---- MODULE Spec2Model ----
(***************************************************************************)
(* Paw Recognition frontend: the prediction client (lib/api), the two      *)
(* server-side relays (api/predict, api/random-dog) and the page component *)
(* (app/page.tsx) that drives them.                                        *)
(*                                                                         *)
(* JavaScript values are encoded as follows.                               *)
(*   - a nullable state slot is Null (<<>>) or Some(v) (<<v>>);            *)
(*   - a JSON object is a record that has exactly the fields present;      *)
(*   - the JSON value null is JsonNull;                                    *)
(*   - a response body is NotJson or Json(v);                              *)
(*   - a thrown value is Err(message) for an Error instance and NonError   *)
(*     for anything else (a ProgressEvent from a FileReader);              *)
(*   - an image is its media type and its size in bytes.                   *)
(***************************************************************************)
EXTENDS Integers, Sequences, FiniteSets, TLC

(***************************************************************************)
(* Bounds of the model.                                                    *)
(***************************************************************************)
MaxReaders == 1
MaxCameraRequests == 2
MaxStreams == 2

(***************************************************************************)
(* Values.                                                                 *)
(***************************************************************************)
Null == <<>>
Some(v) == <<v>>
Val(o) == o[1]

JsonNull == [jsnull |-> TRUE]
NotJson == [parses |-> FALSE]
Json(v) == [parses |-> TRUE, value |-> v]

Err(m) == [isError |-> TRUE, message |-> m]
NonError == [isError |-> FALSE]

Fulfilled(v) == [state |-> "fulfilled", value |-> v]
Rejected(r) == [state |-> "rejected", reason |-> r]

HasField(o, f) == o # JsonNull /\ f \in DOMAIN o

\* String.prototype.startsWith
StartsWith(s, prefix) ==
    /\ Len(s) >= Len(prefix)
    /\ SubSeq(s, 1, Len(prefix)) = prefix

\* Response.ok
Ok(status) == status >= 200 /\ status <= 299

(***************************************************************************)
(* Messages of the client and the relays.                                  *)
(***************************************************************************)
MsgNotImage == "Please upload a valid image file"
MsgTooLarge == "Image size should be less than 5MB"
MsgRateLimit == "Too many requests. Please try again later."
MsgAuth == "Authentication failed. Please check your API key."
MsgUnknown == "Unknown error"
MsgUnexpected == "An unexpected error occurred"
MsgHttp(status) == "HTTP error! status: " \o ToString(status)

\* messages of the runtime, not of the repository
MsgFetchFailed == "Failed to fetch"
MsgJsonSyntax == "Unexpected token < in JSON at position 0"
MsgNullProperty == "Cannot read properties of null (reading 'error')"

maxSize == 5 * 1024 * 1024

(***************************************************************************)
(* Inputs: files the user may choose, answers the inference service may    *)
(* give.                                                                   *)
(***************************************************************************)
FileTypes == {"image/png", "image/jpeg", "text/plain", "video/mp4", ""}
FileSizes == {0, 1024, maxSize - 1, maxSize, maxSize + 1, 2 * maxSize}
Files == [type : FileTypes, size : FileSizes]

Statuses == {200, 201, 400, 401, 403, 404, 429, 500, 503}
ErrorTexts == {"", "boom"}
PredictionLists ==
    { <<>>,
      <<[label |-> "golden-retriever", confidence |-> 95]>>,
      <<[label |-> "golden-retriever", confidence |-> 95],
        [label |-> "labrador", confidence |-> 3]>> }
JsonObjects ==
    [error : ErrorTexts, predictions : PredictionLists]
        \cup [error : ErrorTexts]
        \cup [predictions : PredictionLists]
        \cup [message : {"ok"}]
Bodies == {NotJson} \cup {Json(v) : v \in JsonObjects \cup {JsonNull}}
Responses == [status : Statuses, body : Bodies]
\* what a fetch() settles with: a response, or a network-level failure
NetworkFailure == [failed |-> TRUE]
FetchOutcomes == {NetworkFailure} \cup Responses

\* FileReader.readAsDataURL: the data URL keeps the media type and the bytes
DataURL(type, size) == [mime |-> type, bytes |-> size]

(***************************************************************************)
(* JavaScript truthiness of a string field of a JSON object.               *)
(***************************************************************************)
Truthy(o, f) == HasField(o, f) /\ o[f] # ""

(***************************************************************************)
(* Completions of a try block: it returns a value or throws one.           *)
(***************************************************************************)
Return(v) == [throws |-> FALSE, value |-> v]
Throw(e) == [throws |-> TRUE, thrown |-> e]

(***************************************************************************)
(* lib/api: predictPaw (direct mode).                                      *)
(***************************************************************************)
VARIABLES pawPc, pawFile, pawImage, pawResponse, pawSettled, fileReads, directPosts

pawVars == <<pawPc, pawFile, pawImage, pawResponse, pawSettled, fileReads, directPosts>>

\* the environment of the server process and the requests travelling
\* between the browser, the predict relay and the inference service
VARIABLES apiConfigured, unsplashConfigured, predictCalls

netVars == <<apiConfigured, unsplashConfigured, predictCalls>>

\* a caller of predictFromBase64 outside the page
VARIABLES b64Pc, b64Outcome, b64Response, b64Settled

b64Vars == <<b64Pc, b64Outcome, b64Response, b64Settled>>

\* a request to POST /api/predict from any client: the body it sent, the
\* fetches the handler made, what its fetch settled with, the response
VARIABLES postPc, postBody, postFetches, postOutcome, postResponse

\* a request to GET /api/random-dog: the fetches the handler made, what they
\* settled with, the response
VARIABLES getPc, getFetches, getLookup, getDownload, getResponse

relayVars == <<postPc, postBody, postFetches, postOutcome, postResponse,
               getPc, getFetches, getLookup, getDownload, getResponse>>

\* a call of urlToBase64: where it stands, what its fetch settled with, how
\* its promise settled
VARIABLES urlPc, urlResponse, urlSettled

urlVars == <<urlPc, urlResponse, urlSettled>>

\* app/page.tsx: the state of the Home component
VARIABLES selectedImage, result, loading, error, imageSource,
          unsplashAttribution, cameraActive, stream

\* the asynchronous work the component has started, and the capture streams
VARIABLES fileReaders, randomCalls, cameraRequests, liveStreams, predictResponse

\* the Home component is on the screen: it has been rendered and not torn down
VARIABLE mounted

homeVars == <<selectedImage, result, loading, error, imageSource,
              unsplashAttribution, cameraActive, stream>>
flowVars == <<fileReaders, randomCalls, cameraRequests, liveStreams, predictResponse>>
pageVars == <<homeVars, flowVars, mounted>>

\* the validation at the head of predictPaw: the thrown value, or Null
PawValidate(file) ==
    IF ~StartsWith(file.type, "image/") THEN Some(Err(MsgNotImage))
    ELSE IF file.size > maxSize THEN Some(Err(MsgTooLarge))
    ELSE Null

\* response.json().catch(() => ({ error: 'Unknown error' }))
PawErrorData(body) == IF body.parses THEN body.value ELSE [error |-> MsgUnknown]

\* the message read from errorData.message instead of errorData.error
PawNotOkError_WrongField(response) ==
    LET errorData == PawErrorData(response.body)
    IN  IF errorData = JsonNull THEN Err(MsgNullProperty)
        ELSE IF Truthy(errorData, "message") THEN Err(errorData.message)
        ELSE Err(MsgHttp(response.status))

\* new Error(errorData.error || `HTTP error! status: ${response.status}`)
PawNotOkError(response) ==
    LET errorData == PawErrorData(response.body)
    IN  IF errorData = JsonNull THEN Err(MsgNullProperty)
        ELSE IF Truthy(errorData, "error") THEN Err(errorData.error)
        ELSE Err(MsgHttp(response.status))

\* the generic non-2xx branch placed before the 401/403 branch
PawAfterFetch_GenericFirst(outcome) ==
    IF outcome = NetworkFailure THEN Throw(Err(MsgFetchFailed))
    ELSE IF outcome.status = 429 THEN Throw(Err(MsgRateLimit))
    ELSE IF ~Ok(outcome.status) THEN Throw(PawNotOkError(outcome))
    ELSE IF outcome.status = 401 \/ outcome.status = 403 THEN Throw(Err(MsgAuth))
    ELSE IF outcome.body.parses THEN Return(outcome.body.value)
    ELSE Throw(Err(MsgJsonSyntax))

\* the statements of predictPaw that follow the fetch, inside the try block
PawAfterFetch(outcome) ==
    IF outcome = NetworkFailure THEN Throw(Err(MsgFetchFailed))
    ELSE IF outcome.status = 429 THEN Throw(Err(MsgRateLimit))
    ELSE IF outcome.status = 401 \/ outcome.status = 403 THEN Throw(Err(MsgAuth))
    ELSE IF ~Ok(outcome.status) THEN Throw(PawNotOkError(outcome))
    ELSE IF outcome.body.parses THEN Return(outcome.body.value)
    ELSE Throw(Err(MsgJsonSyntax))

\* a catch clause that passes on what is not an Error instance
PawCatch_Rethrow(thrown) ==
    IF thrown.isError THEN Fulfilled([error |-> thrown.message])
    ELSE Rejected(thrown)

\* the catch clause of predictPaw
PawCatch(thrown) ==
    IF thrown.isError THEN Fulfilled([error |-> thrown.message])
    ELSE Fulfilled([error |-> MsgUnexpected])

\* how the promise of predictPaw settles for a completion of its try block
PawSettle(completion) ==
    IF completion.throws THEN PawCatch(completion.thrown)
    ELSE Fulfilled(completion.value)

PawInit ==
    /\ pawPc = "idle"
    /\ pawFile = Null
    /\ pawImage = Null
    /\ pawResponse = Null
    /\ pawSettled = Null
    /\ fileReads = 0
    /\ directPosts = 0

\* predictPaw(imageFile) up to its first await
PredictPaw(file) ==
    /\ pawPc = "idle"
    /\ pawFile' = Some(file)
    /\ IF PawValidate(file) # Null
       THEN /\ pawPc' = "settled"
            /\ pawSettled' = Some(PawSettle(Throw(Val(PawValidate(file)))))
            /\ fileReads' = fileReads
       ELSE /\ pawPc' = "reading"
            /\ pawSettled' = pawSettled
            /\ fileReads' = fileReads + 1
    /\ UNCHANGED <<pawImage, pawResponse, directPosts>>
    /\ UNCHANGED <<netVars, b64Vars, relayVars, pageVars, urlVars>>

\* fileToBase64 settles: onloadend resolves with the data URL, onerror rejects
\* with the event; on success predictPaw issues its fetch
PawFileRead(ok) ==
    /\ pawPc = "reading"
    /\ IF ok
       THEN /\ pawImage' = Some(DataURL(Val(pawFile).type, Val(pawFile).size))
            /\ pawPc' = "fetching"
            /\ directPosts' = directPosts + 1
            /\ pawSettled' = pawSettled
       ELSE /\ pawPc' = "settled"
            /\ pawSettled' = Some(PawSettle(Throw(NonError)))
            /\ UNCHANGED <<pawImage, directPosts>>
    /\ UNCHANGED <<pawFile, pawResponse, fileReads>>
    /\ UNCHANGED <<netVars, b64Vars, relayVars, pageVars, urlVars>>

\* the fetch of predictPaw settles
PawFetchSettles(outcome) ==
    /\ pawPc = "fetching"
    /\ pawResponse' = Some(outcome)
    /\ pawPc' = "settled"
    /\ pawSettled' = Some(PawSettle(PawAfterFetch(outcome)))
    /\ UNCHANGED <<pawFile, pawImage, fileReads, directPosts>>
    /\ UNCHANGED <<netVars, b64Vars, relayVars, pageVars, urlVars>>

(***************************************************************************)
(* api/predict: the predict relay (POST).                                  *)
(***************************************************************************)
RelayMsgConfig == "Server configuration error"
RelayMsgNoImage == "No image provided"
RelayMsgInternal == "Internal server error"
RelayMsgApi(status) == "API error: " \o ToString(status)

\* the JavaScript string "" in the place of an image
EmptyImage == [empty |-> TRUE]

\* NextResponse.json(data, { status })
JsonResponse(status, data) == [status |-> status, body |-> Json(data)]

Respond(response) == [forwards |-> FALSE, response |-> response]
Forward(image) == [forwards |-> TRUE, image |-> image]

\* a handler that only looks for the presence of the image field
RelayBeforeFetch_PresenceOnly(configured, requestBody) ==
    IF ~configured THEN Respond(JsonResponse(500, [error |-> RelayMsgConfig]))
    ELSE IF ~requestBody.parses \/ requestBody.value = JsonNull
         THEN Respond(JsonResponse(500, [error |-> RelayMsgInternal]))
    ELSE IF ~HasField(requestBody.value, "image")
         THEN Respond(JsonResponse(400, [error |-> RelayMsgNoImage]))
    ELSE Forward(requestBody.value.image)

\* POST up to its fetch: the response it gives at once, or the image it
\* forwards to the inference service
RelayBeforeFetch(configured, requestBody) ==
    IF ~configured THEN Respond(JsonResponse(500, [error |-> RelayMsgConfig]))
    ELSE IF ~requestBody.parses \/ requestBody.value = JsonNull
         THEN Respond(JsonResponse(500, [error |-> RelayMsgInternal]))
    ELSE IF ~HasField(requestBody.value, "image")
            \/ requestBody.value.image = EmptyImage
         THEN Respond(JsonResponse(400, [error |-> RelayMsgNoImage]))
    ELSE Forward(requestBody.value.image)

\* response.json().catch(() => ({ error: 'Unknown error' }))
RelayErrorData(body) == IF body.parses THEN body.value ELSE [error |-> MsgUnknown]

\* a handler that answers 500 to every failure of the service
RelayAfterFetch_Always500(outcome) ==
    IF outcome = NetworkFailure THEN JsonResponse(500, [error |-> RelayMsgInternal])
    ELSE IF ~Ok(outcome.status)
         THEN LET errorData == RelayErrorData(outcome.body)
              IN  IF errorData = JsonNull
                  THEN JsonResponse(500, [error |-> RelayMsgInternal])
                  ELSE JsonResponse(500,
                         [error |-> IF Truthy(errorData, "error")
                                    THEN errorData.error
                                    ELSE RelayMsgApi(outcome.status)])
    ELSE IF outcome.body.parses THEN JsonResponse(200, outcome.body.value)
    ELSE JsonResponse(500, [error |-> RelayMsgInternal])

\* POST from the moment its fetch settles
RelayAfterFetch(outcome) ==
    IF outcome = NetworkFailure THEN JsonResponse(500, [error |-> RelayMsgInternal])
    ELSE IF ~Ok(outcome.status)
         THEN LET errorData == RelayErrorData(outcome.body)
              IN  IF errorData = JsonNull
                  THEN JsonResponse(500, [error |-> RelayMsgInternal])
                  ELSE JsonResponse(outcome.status,
                         [error |-> IF Truthy(errorData, "error")
                                    THEN errorData.error
                                    ELSE RelayMsgApi(outcome.status)])
    ELSE IF outcome.body.parses THEN JsonResponse(200, outcome.body.value)
    ELSE JsonResponse(500, [error |-> RelayMsgInternal])

(***************************************************************************)
(* lib/api: predictFromBase64 (relayed mode).                              *)
(***************************************************************************)
\* response.json().catch(() => ({ error: 'Unknown error' }))
B64ErrorData(body) == IF body.parses THEN body.value ELSE [error |-> MsgUnknown]

\* new Error(errorData.error || `HTTP error! status: ${response.status}`)
B64NotOkError(response) ==
    LET errorData == B64ErrorData(response.body)
    IN  IF errorData = JsonNull THEN Err(MsgNullProperty)
        ELSE IF Truthy(errorData, "error") THEN Err(errorData.error)
        ELSE Err(MsgHttp(response.status))

\* the statements of predictFromBase64 that follow the fetch, inside the try
B64AfterFetch(outcome) ==
    IF outcome = NetworkFailure THEN Throw(Err(MsgFetchFailed))
    ELSE IF ~Ok(outcome.status) THEN Throw(B64NotOkError(outcome))
    ELSE IF outcome.body.parses THEN Return(outcome.body.value)
    ELSE Throw(Err(MsgJsonSyntax))

\* the catch clause of predictFromBase64
B64Catch(thrown) ==
    IF thrown.isError THEN Fulfilled([error |-> thrown.message])
    ELSE Fulfilled([error |-> MsgUnexpected])

\* how the promise of predictFromBase64 settles
B64Settle(completion) ==
    IF completion.throws THEN B64Catch(completion.thrown)
    ELSE Fulfilled(completion.value)

(***************************************************************************)
(* A request of predictFromBase64 on its way: at the relay, at the         *)
(* inference service, or on its way back to the browser.                   *)
(***************************************************************************)
NewCall(image) ==
    [pc |-> "atRelay", image |-> image, servicePosts |-> 0,
     outcome |-> Null, response |-> Null]

RemoveAt(seq, i) == SubSeq(seq, 1, i - 1) \o SubSeq(seq, i + 1, Len(seq))

NetInit ==
    /\ apiConfigured \in BOOLEAN
    /\ unsplashConfigured \in BOOLEAN
    /\ predictCalls = <<>>

B64Init ==
    /\ b64Pc = "idle"
    /\ b64Outcome = Null
    /\ b64Response = Null
    /\ b64Settled = Null

\* the fetch of predictFromBase64 settles without the route handler having
\* run: a network failure, or an answer of the hosting platform
PlatformAnswers(i, outcome) ==
    /\ predictCalls[i].pc = "atRelay"
    /\ predictCalls' = [predictCalls EXCEPT ![i].pc = "toClient",
                                            ![i].response = Some(outcome)]
    /\ UNCHANGED <<apiConfigured, unsplashConfigured>>

\* the relay handles the request up to its own fetch
RelayReceives(i) ==
    LET step == RelayBeforeFetch(apiConfigured, Json([image |-> predictCalls[i].image]))
    IN  /\ predictCalls[i].pc = "atRelay"
        /\ predictCalls' =
               IF step.forwards
               THEN [predictCalls EXCEPT ![i].pc = "atService",
                                         ![i].servicePosts = @ + 1]
               ELSE [predictCalls EXCEPT ![i].pc = "toClient",
                                         ![i].response = Some(step.response)]
        /\ UNCHANGED <<apiConfigured, unsplashConfigured>>

\* a relay that POSTs again when its fetch failed or gave a 5xx
ServiceAnswers_Retry(i, outcome) ==
    /\ predictCalls[i].pc = "atService"
    /\ predictCalls' =
           IF outcome = NetworkFailure \/ outcome.status >= 500
           THEN [predictCalls EXCEPT ![i].servicePosts = @ + 1]
           ELSE [predictCalls EXCEPT ![i].pc = "toClient",
                                     ![i].outcome = Some(outcome),
                                     ![i].response = Some(RelayAfterFetch(outcome))]
    /\ UNCHANGED <<apiConfigured, unsplashConfigured>>

\* the fetch of the relay settles and the relay answers
ServiceAnswers(i, outcome) ==
    /\ predictCalls[i].pc = "atService"
    /\ predictCalls' = [predictCalls EXCEPT ![i].pc = "toClient",
                                            ![i].outcome = Some(outcome),
                                            ![i].response = Some(RelayAfterFetch(outcome))]
    /\ UNCHANGED <<apiConfigured, unsplashConfigured>>

\* predictFromBase64(imageBase64) up to its await
PredictFromBase64(image) ==
    /\ b64Pc = "idle"
    /\ b64Pc' = "pending"
    /\ predictCalls' = Append(predictCalls, NewCall(image))
    /\ UNCHANGED <<b64Outcome, b64Response, b64Settled>>
    /\ UNCHANGED <<apiConfigured, unsplashConfigured>>
    /\ UNCHANGED <<pawVars, pageVars, relayVars, urlVars>>

\* the fetch of predictFromBase64 settles and so does its promise
B64FetchSettles ==
    /\ b64Pc = "pending"
    /\ predictCalls # <<>>
    /\ predictCalls[1].pc = "toClient"
    /\ b64Pc' = "settled"
    /\ b64Outcome' = predictCalls[1].outcome
    /\ b64Response' = predictCalls[1].response
    /\ b64Settled' = Some(B64Settle(B64AfterFetch(Val(predictCalls[1].response))))
    /\ predictCalls' = RemoveAt(predictCalls, 1)
    /\ UNCHANGED <<apiConfigured, unsplashConfigured>>
    /\ UNCHANGED <<pawVars, pageVars, relayVars, urlVars>>

\* images a caller may pass to predictFromBase64
ImageTypes == {"image/jpeg", "text/html", ""}
ImageSizes == {0, 204800, maxSize, maxSize + 1}
Images == {DataURL(t, n) : t \in ImageTypes, n \in ImageSizes}

(***************************************************************************)
(* api/random-dog: the random-image relay (GET).                           *)
(***************************************************************************)
RandomMsgLookup == "Failed to fetch image from Unsplash"
RandomMsgNoUrl == "No image URL in response"
RandomMsgDownload == "Failed to download image"

\* answers of the provider's random-photo lookup
PhotoFull ==
    [urls |-> [regular |-> "https://images.unsplash.com/p1"],
     user |-> [name |-> "Ada", links |-> [html |-> "https://unsplash.com/@ada"]],
     links |-> [html |-> "https://unsplash.com/photos/p1"]]
PhotoBare == [urls |-> [full |-> "https://images.unsplash.com/p2"]]
PhotoNoUrl == [id |-> "p3"]
LookupOutcomes ==
    {NetworkFailure}
        \cup [status : {200, 403},
              body : {NotJson, Json(PhotoFull), Json(PhotoBare), Json(PhotoNoUrl)}]
\* answers of the image download: the status line and the headers, the size
\* of the body, and whether the body arrives whole (arrayBuffer() rejects
\* when the connection breaks while the body is read)
DownloadOutcomes ==
    {NetworkFailure}
        \cup [status : {200, 404},
              contentType : {Null, Some("image/jpeg"), Some("text/html")},
              bytes : {204800, maxSize + 1},
              complete : BOOLEAN]

\* data.urls?.regular || data.urls?.full
ImageUrl(data) ==
    IF ~HasField(data, "urls") THEN Null
    ELSE IF Truthy(data.urls, "regular") THEN Some(data.urls.regular)
    ELSE IF Truthy(data.urls, "full") THEN Some(data.urls.full)
    ELSE Null

\* the attribution object as JSON serialises it: undefined fields are dropped
Attribution(data) ==
    LET photographer == IF HasField(data, "user") /\ HasField(data.user, "name")
                        THEN Some(data.user.name) ELSE Null
        photographerUrl == IF HasField(data, "user") /\ HasField(data.user, "links")
                              /\ HasField(data.user.links, "html")
                           THEN Some(data.user.links.html) ELSE Null
        unsplashUrl == IF HasField(data, "links") /\ HasField(data.links, "html")
                       THEN Some(data.links.html) ELSE Null
        all == [photographer |-> photographer, photographerUrl |-> photographerUrl,
                unsplashUrl |-> unsplashUrl]
        present == {f \in DOMAIN all : all[f] # Null}
    IN  [f \in present |-> Val(all[f])]

\* a handler that does not look at its configuration before the lookup
RandomBeforeFetch_Unchecked(configured) == Null

\* GET up to its first fetch: the response it gives at once, if any
RandomBeforeFetch(configured) ==
    IF ~configured THEN Some(JsonResponse(500, [error |-> RelayMsgConfig]))
    ELSE Null

\* GET from the moment the lookup settles up to the download: the response
\* it gives at once, or the URL it downloads
RandomAfterLookup(lookup) ==
    IF lookup = NetworkFailure
    THEN Respond(JsonResponse(500, [error |-> RelayMsgInternal]))
    ELSE IF ~Ok(lookup.status)
         THEN Respond(JsonResponse(502, [error |-> RandomMsgLookup]))
    ELSE IF ~lookup.body.parses \/ lookup.body.value = JsonNull
         THEN Respond(JsonResponse(500, [error |-> RelayMsgInternal]))
    ELSE IF ImageUrl(lookup.body.value) = Null
         THEN Respond(JsonResponse(502, [error |-> RandomMsgNoUrl]))
    ELSE [forwards |-> TRUE, url |-> Val(ImageUrl(lookup.body.value))]

\* a handler that encodes whatever part of the body has arrived
RandomAfterDownload_Partial(lookup, download) ==
    IF download = NetworkFailure
    THEN JsonResponse(500, [error |-> RelayMsgInternal])
    ELSE IF ~Ok(download.status) THEN JsonResponse(502, [error |-> RandomMsgDownload])
    ELSE JsonResponse(200,
           [image |-> DataURL(IF download.contentType # Null
                              THEN Val(download.contentType) ELSE "image/jpeg",
                              IF download.complete THEN download.bytes
                              ELSE download.bytes \div 2),
            attribution |-> Attribution(lookup.body.value)])

\* GET from the moment the download settles
RandomAfterDownload(lookup, download) ==
    IF download = NetworkFailure
    THEN JsonResponse(500, [error |-> RelayMsgInternal])
    ELSE IF ~Ok(download.status) THEN JsonResponse(502, [error |-> RandomMsgDownload])
    ELSE IF ~download.complete THEN JsonResponse(500, [error |-> RelayMsgInternal])
    ELSE JsonResponse(200,
           [image |-> DataURL(IF download.contentType # Null
                              THEN Val(download.contentType) ELSE "image/jpeg",
                              download.bytes),
            attribution |-> Attribution(lookup.body.value)])

\* GET as a function of what its two fetches settle with
RandomDogGET(configured, lookup, download) ==
    IF RandomBeforeFetch(configured) # Null THEN Val(RandomBeforeFetch(configured))
    ELSE IF ~RandomAfterLookup(lookup).forwards THEN RandomAfterLookup(lookup).response
    ELSE RandomAfterDownload(lookup, download)

(***************************************************************************)
(* lib/api: getRandomDogImageBase64.                                       *)
(***************************************************************************)
MsgRandomServer == "Failed to fetch random image from server"

GetRandomDogImageBase64(outcome) ==
    IF outcome = NetworkFailure THEN Throw(Err(MsgFetchFailed))
    ELSE IF ~Ok(outcome.status) THEN Throw(Err(MsgRandomServer))
    ELSE IF ~outcome.body.parses THEN Throw(Err(MsgJsonSyntax))
    ELSE IF outcome.body.value = JsonNull THEN Throw(Err(MsgNullProperty))
    ELSE IF Truthy(outcome.body.value, "error") THEN Throw(Err(outcome.body.value.error))
    ELSE Return(outcome.body.value)

(***************************************************************************)
(* The two route handlers, called by any client with any request body.     *)
(***************************************************************************)
\* bodies a client may POST to /api/predict
RequestBodies ==
    { NotJson, Json(JsonNull), Json([note |-> "hello"]),
      Json([image |-> EmptyImage]), Json([image |-> EmptyImage, note |-> "hello"]),
      Json([image |-> DataURL("image/jpeg", 204800)]),
      Json([image |-> DataURL("text/html", maxSize + 1)]) }

RelayInit ==
    /\ postPc = "idle"
    /\ postBody = Null
    /\ postFetches = 0
    /\ postOutcome = Null
    /\ postResponse = Null
    /\ getPc = "idle"
    /\ getFetches = 0
    /\ getLookup = Null
    /\ getDownload = Null
    /\ getResponse = Null

\* POST /api/predict up to its fetch
RelayPOST(requestBody) ==
    LET step == RelayBeforeFetch(apiConfigured, requestBody)
    IN  /\ postPc = "idle"
        /\ postBody' = Some(requestBody)
        /\ IF step.forwards
           THEN /\ postPc' = "fetching"
                /\ postFetches' = postFetches + 1
                /\ postResponse' = postResponse
           ELSE /\ postPc' = "done"
                /\ postFetches' = postFetches
                /\ postResponse' = Some(step.response)
        /\ UNCHANGED postOutcome
        /\ UNCHANGED <<getPc, getFetches, getLookup, getDownload, getResponse>>
        /\ UNCHANGED <<pawVars, netVars, b64Vars, pageVars, urlVars>>

\* the fetch of POST /api/predict settles and the handler answers
RelayFetchSettles(outcome) ==
    /\ postPc = "fetching"
    /\ postPc' = "done"
    /\ postOutcome' = Some(outcome)
    /\ postResponse' = Some(RelayAfterFetch(outcome))
    /\ UNCHANGED <<postBody, postFetches>>
    /\ UNCHANGED <<getPc, getFetches, getLookup, getDownload, getResponse>>
    /\ UNCHANGED <<pawVars, netVars, b64Vars, pageVars, urlVars>>

\* GET /api/random-dog up to its first fetch
RandomGET ==
    /\ getPc = "idle"
    /\ IF RandomBeforeFetch(unsplashConfigured) # Null
       THEN /\ getPc' = "done"
            /\ getFetches' = getFetches
            /\ getResponse' = RandomBeforeFetch(unsplashConfigured)
       ELSE /\ getPc' = "lookup"
            /\ getFetches' = getFetches + 1
            /\ getResponse' = getResponse
    /\ UNCHANGED <<getLookup, getDownload>>
    /\ UNCHANGED <<postPc, postBody, postFetches, postOutcome, postResponse>>
    /\ UNCHANGED <<pawVars, netVars, b64Vars, pageVars, urlVars>>

\* the lookup of GET /api/random-dog settles
RandomLookupSettles(lookup) ==
    LET step == RandomAfterLookup(lookup)
    IN  /\ getPc = "lookup"
        /\ getLookup' = Some(lookup)
        /\ IF step.forwards
           THEN /\ getPc' = "download"
                /\ getFetches' = getFetches + 1
                /\ getResponse' = getResponse
           ELSE /\ getPc' = "done"
                /\ getFetches' = getFetches
                /\ getResponse' = Some(step.response)
        /\ UNCHANGED getDownload
        /\ UNCHANGED <<postPc, postBody, postFetches, postOutcome, postResponse>>
        /\ UNCHANGED <<pawVars, netVars, b64Vars, pageVars, urlVars>>

\* the download of GET /api/random-dog settles and the handler answers
RandomDownloadSettles(download) ==
    /\ getPc = "download"
    /\ getPc' = "done"
    /\ getDownload' = Some(download)
    /\ getResponse' = Some(RandomAfterDownload(Val(getLookup), download))
    /\ UNCHANGED <<getFetches, getLookup>>
    /\ UNCHANGED <<postPc, postBody, postFetches, postOutcome, postResponse>>
    /\ UNCHANGED <<pawVars, netVars, b64Vars, pageVars, urlVars>>

(***************************************************************************)
(* lib/api: urlToBase64.                                                   *)
(***************************************************************************)
\* what the GET of urlToBase64 settles with: a network failure, or a status,
\* a declared content type, a body, and whether the body arrives whole
UrlOutcomes ==
    {NetworkFailure}
        \cup [status : {200, 404, 500},
              contentType : {"image/jpeg", "text/html"},
              bytes : {0, 204800},
              complete : BOOLEAN]

UrlInit ==
    /\ urlPc = "idle"
    /\ urlResponse = Null
    /\ urlSettled = Null

\* urlToBase64(url) up to its first await
UrlToBase64 ==
    /\ urlPc = "idle"
    /\ urlPc' = "fetching"
    /\ UNCHANGED <<urlResponse, urlSettled>>
    /\ UNCHANGED <<pawVars, netVars, b64Vars, relayVars, pageVars>>

\* await fetch(url); await response.blob(): the blob, or what is thrown
UrlAfterFetch(outcome) ==
    IF outcome = NetworkFailure THEN Throw(Err(MsgFetchFailed))
    ELSE IF ~outcome.complete THEN Throw(Err(MsgFetchFailed))
    ELSE Return([type |-> outcome.contentType, size |-> outcome.bytes])

\* the fetch of urlToBase64 settles and the body is read into a blob; nothing
\* catches what is thrown
UrlFetchSettles(outcome) ==
    LET completion == UrlAfterFetch(outcome)
    IN  /\ urlPc = "fetching"
        /\ urlResponse' = Some(outcome)
        /\ IF completion.throws
           THEN /\ urlPc' = "settled"
                /\ urlSettled' = Some(Rejected(completion.thrown))
           ELSE /\ urlPc' = "reading"
                /\ urlSettled' = urlSettled
        /\ UNCHANGED <<pawVars, netVars, b64Vars, relayVars, pageVars>>

\* the FileReader of urlToBase64 ends: onloadend resolves with the data URL,
\* onerror rejects with the event
UrlReaderSettles(ok) ==
    LET blob == UrlAfterFetch(Val(urlResponse)).value
    IN  /\ urlPc = "reading"
        /\ urlPc' = "settled"
        /\ urlSettled' = IF ok THEN Some(Fulfilled(DataURL(blob.type, blob.size)))
                         ELSE Some(Rejected(NonError))
        /\ UNCHANGED urlResponse
        /\ UNCHANGED <<pawVars, netVars, b64Vars, relayVars, pageVars>>

(***************************************************************************)
(* app/page.tsx: the Home component.                                       *)
(***************************************************************************)
MsgSelectImage == "Please select a valid image file"
MsgRandomFailed == "Failed to load random dog image"
MsgCamera == "Failed to access camera. Please check permissions."
MsgPredictFailed == "Failed to get prediction. Please try again."

\* the data URL of canvas.toDataURL('image/jpeg'); a canvas without
\* dimensions gives "data:,"
CameraFrames == {DataURL("image/jpeg", 204800), DataURL("", 0)}

PageInit ==
    /\ selectedImage = Null
    /\ result = Null
    /\ loading = FALSE
    /\ error = Null
    /\ imageSource = Null
    /\ unsplashAttribution = Null
    /\ cameraActive = FALSE
    /\ stream = Null
    /\ fileReaders = <<>>
    /\ randomCalls = 0
    /\ cameraRequests = 0
    /\ liveStreams = {}
    /\ predictResponse = Null
    /\ mounted = TRUE

\* {!selectedImage && !cameraActive && ( ...the three source buttons... )}
SourceOptionsVisible == selectedImage = Null /\ ~cameraActive

\* {result && result.predictions && ( ... "Try Another Image" ... )}
ResultsVisible == result # Null /\ HasField(Val(result), "predictions")

\* a check that only asks for some media type
UploadTypeOk_AnyType(file) == file.type # ""

\* the check of the media type in handleFileUpload
UploadTypeOk(file) == StartsWith(file.type, "image/")

\* a check that refuses a file of exactly 5 MiB
UploadSizeOk_Strict(file) == file.size < 5 * 1024 * 1024

\* the check of the size in handleFileUpload
UploadSizeOk(file) == ~(file.size > 5 * 1024 * 1024)

\* a handler that clears the result and the source when it refuses a file
HandleFileUpload_ClearsOnReject(file) ==
    /\ mounted
    /\ UNCHANGED mounted
    /\ SourceOptionsVisible
    /\ IF ~UploadTypeOk(file) \/ ~UploadSizeOk(file)
       THEN /\ error' = Some(IF ~UploadTypeOk(file) THEN MsgSelectImage ELSE MsgTooLarge)
            /\ fileReaders' = fileReaders
            /\ result' = Null
            /\ imageSource' = Null
       ELSE /\ Len(fileReaders) < MaxReaders
            /\ fileReaders' = Append(fileReaders, file)
            /\ error' = error
            /\ UNCHANGED <<result, imageSource>>
    /\ UNCHANGED <<selectedImage, loading, unsplashAttribution, cameraActive, stream>>
    /\ UNCHANGED <<randomCalls, cameraRequests, liveStreams, predictResponse>>

\* onChange of the file input
HandleFileUpload(file) ==
    /\ mounted
    /\ UNCHANGED mounted
    /\ SourceOptionsVisible
    /\ IF ~UploadTypeOk(file)
       THEN /\ error' = Some(MsgSelectImage)
            /\ fileReaders' = fileReaders
       ELSE IF ~UploadSizeOk(file)
       THEN /\ error' = Some(MsgTooLarge)
            /\ fileReaders' = fileReaders
       ELSE /\ Len(fileReaders) < MaxReaders
            /\ fileReaders' = Append(fileReaders, file)
            /\ error' = error
    /\ UNCHANGED <<selectedImage, result, loading, imageSource,
                   unsplashAttribution, cameraActive, stream>>
    /\ UNCHANGED <<randomCalls, cameraRequests, liveStreams, predictResponse>>

\* reader.onloadend of handleFileUpload: it runs after a failed read too, and
\* reader.result is then null
FileReaderLoadEnd(i, ok) ==
    /\ mounted
    /\ UNCHANGED mounted
    /\ selectedImage' = IF ok THEN Some(DataURL(fileReaders[i].type, fileReaders[i].size))
                        ELSE Null
    /\ imageSource' = Some("upload")
    /\ error' = Null
    /\ result' = Null
    /\ fileReaders' = RemoveAt(fileReaders, i)
    /\ UNCHANGED <<loading, unsplashAttribution, cameraActive, stream>>
    /\ UNCHANGED <<randomCalls, cameraRequests, liveStreams, predictResponse>>

\* a handler that starts the fetch without setLoading(true)
HandleUnsplashImage_NoLoading ==
    /\ mounted
    /\ UNCHANGED mounted
    /\ SourceOptionsVisible
    /\ ~loading
    /\ loading' = loading
    /\ error' = Null
    /\ result' = Null
    /\ randomCalls < 2
    /\ randomCalls' = randomCalls + 1
    /\ UNCHANGED <<selectedImage, imageSource, unsplashAttribution, cameraActive, stream>>
    /\ UNCHANGED <<fileReaders, cameraRequests, liveStreams, predictResponse>>

\* handleUnsplashImage up to its await
HandleUnsplashImage ==
    /\ mounted
    /\ UNCHANGED mounted
    /\ SourceOptionsVisible
    /\ ~loading
    /\ loading' = TRUE
    /\ error' = Null
    /\ result' = Null
    /\ randomCalls' = randomCalls + 1
    /\ UNCHANGED <<selectedImage, imageSource, unsplashAttribution, cameraActive, stream>>
    /\ UNCHANGED <<fileReaders, cameraRequests, liveStreams, predictResponse>>

\* handleUnsplashImage from the moment getRandomDogImageBase64 settles
RandomDogSettles(outcome) ==
    LET completion == GetRandomDogImageBase64(outcome)
    IN  /\ mounted
        /\ UNCHANGED mounted
        /\ randomCalls > 0
        /\ randomCalls' = randomCalls - 1
        /\ IF completion.throws
           THEN /\ error' = Some(MsgRandomFailed)
                /\ UNCHANGED <<selectedImage, imageSource, unsplashAttribution>>
           ELSE /\ selectedImage' = Some(completion.value.image)
                /\ imageSource' = Some("unsplash")
                /\ unsplashAttribution' =
                       IF HasField(completion.value, "attribution")
                       THEN Some(completion.value.attribution)
                       ELSE unsplashAttribution
                /\ error' = error
        /\ loading' = FALSE
        /\ UNCHANGED <<result, cameraActive, stream>>
        /\ UNCHANGED <<fileReaders, cameraRequests, liveStreams, predictResponse>>

\* startCamera up to its await
StartCamera ==
    /\ mounted
    /\ UNCHANGED mounted
    /\ SourceOptionsVisible
    /\ cameraRequests < MaxCameraRequests
    /\ cameraRequests' = cameraRequests + 1
    /\ UNCHANGED homeVars
    /\ UNCHANGED <<fileReaders, randomCalls, liveStreams, predictResponse>>

\* the MediaStream a granted getUserMedia gives: one that is not live yet
NewStream == CHOOSE id \in 1..(MaxStreams + 1) : id \notin liveStreams

\* startCamera from the moment getUserMedia settles; the setters of a
\* component that has been torn down do nothing
GetUserMediaSettles(granted) ==
    /\ UNCHANGED mounted
    /\ cameraRequests > 0
    /\ cameraRequests' = cameraRequests - 1
    /\ IF granted
       THEN /\ Cardinality(liveStreams) < MaxStreams
            /\ liveStreams' = liveStreams \cup {NewStream}
            /\ IF mounted
               THEN /\ stream' = Some(NewStream)
                    /\ cameraActive' = TRUE
                    /\ error' = Null
                    /\ result' = Null
                    /\ selectedImage' = Null
               ELSE UNCHANGED <<stream, cameraActive, error, result, selectedImage>>
       ELSE /\ error' = IF mounted THEN Some(MsgCamera) ELSE error
            /\ UNCHANGED <<liveStreams, stream, cameraActive, result, selectedImage>>
    /\ UNCHANGED <<loading, imageSource, unsplashAttribution>>
    /\ UNCHANGED <<fileReaders, randomCalls, predictResponse>>

\* the body of stopCamera: the tracks of the held stream are stopped
StoppedStreams == IF stream # Null THEN liveStreams \ {Val(stream)} ELSE liveStreams

\* the Cancel button of the camera view
StopCamera ==
    /\ mounted
    /\ UNCHANGED mounted
    /\ cameraActive
    /\ liveStreams' = StoppedStreams
    /\ stream' = Null
    /\ cameraActive' = FALSE
    /\ UNCHANGED <<selectedImage, result, loading, error, imageSource,
                   unsplashAttribution>>
    /\ UNCHANGED <<fileReaders, randomCalls, cameraRequests, predictResponse>>

\* the Capture Photo button; getContext('2d') may give no context
CapturePhoto(hasContext, frame) ==
    /\ mounted
    /\ UNCHANGED mounted
    /\ cameraActive
    /\ IF hasContext
       THEN /\ selectedImage' = Some(frame)
            /\ imageSource' = Some("camera")
            /\ liveStreams' = StoppedStreams
            /\ stream' = Null
            /\ cameraActive' = FALSE
       ELSE UNCHANGED <<selectedImage, imageSource, liveStreams, stream, cameraActive>>
    /\ UNCHANGED <<result, loading, error, unsplashAttribution>>
    /\ UNCHANGED <<fileReaders, randomCalls, cameraRequests, predictResponse>>

\* resetState: the remove-image button and "Try Another Image"
ResetState ==
    /\ mounted
    /\ UNCHANGED mounted
    /\ selectedImage # Null \/ ResultsVisible
    /\ selectedImage' = Null
    /\ result' = Null
    /\ error' = Null
    /\ imageSource' = Null
    /\ unsplashAttribution' = Null
    /\ IF cameraActive
       THEN /\ liveStreams' = StoppedStreams
            /\ stream' = Null
            /\ cameraActive' = FALSE
       ELSE UNCHANGED <<liveStreams, stream, cameraActive>>
    /\ UNCHANGED loading
    /\ UNCHANGED <<fileReaders, randomCalls, cameraRequests, predictResponse>>

\* the component is torn down: useEffect returns no cleanup function, so no
\* code of the page runs. The state of the component is dropped, and with it
\* the callbacks that would only set state; a pending getUserMedia call and
\* the requests on the network go on, and the capture streams stay as they are
Unmount ==
    /\ mounted
    /\ mounted' = FALSE
    /\ selectedImage' = Null
    /\ result' = Null
    /\ loading' = FALSE
    /\ error' = Null
    /\ imageSource' = Null
    /\ unsplashAttribution' = Null
    /\ cameraActive' = FALSE
    /\ stream' = Null
    /\ fileReaders' = <<>>
    /\ randomCalls' = 0
    /\ predictResponse' = Null
    /\ UNCHANGED <<cameraRequests, liveStreams>>

\* handlePredict up to its await: the Identify Breed button
HandlePredict ==
    /\ mounted
    /\ UNCHANGED mounted
    /\ selectedImage # Null
    /\ result = Null
    /\ ~loading
    /\ loading' = TRUE
    /\ error' = Null
    /\ predictResponse' = Null
    /\ predictCalls' = Append(predictCalls, NewCall(Val(selectedImage)))
    /\ UNCHANGED <<selectedImage, result, imageSource, unsplashAttribution,
                   cameraActive, stream>>
    /\ UNCHANGED <<fileReaders, randomCalls, cameraRequests, liveStreams>>
    /\ UNCHANGED <<apiConfigured, unsplashConfigured>>

\* predictions looked at before the error field
PredictError_PredictionsFirst(settled) ==
    IF settled.state = "rejected" THEN Some(MsgPredictFailed)
    ELSE IF settled.value = JsonNull THEN Some(MsgPredictFailed)
    ELSE IF HasField(settled.value, "predictions") THEN Null
    ELSE IF Truthy(settled.value, "error") THEN Some(settled.value.error)
    ELSE Null

\* what handlePredict does with the settled promise of predictFromBase64:
\* the message it sets, or Null when it sets the result
PredictError(settled) ==
    IF settled.state = "rejected" THEN Some(MsgPredictFailed)
    ELSE IF settled.value = JsonNull THEN Some(MsgPredictFailed)
    ELSE IF Truthy(settled.value, "error") THEN Some(settled.value.error)
    ELSE Null

\* a continuation without the finally block: loading is cleared on the
\* success path only
PredictSettles_NoFinally(i) ==
    LET settled == B64Settle(B64AfterFetch(Val(predictCalls[i].response)))
    IN  /\ mounted
        /\ UNCHANGED mounted
        /\ predictCalls[i].pc = "toClient"
        /\ predictCalls' = RemoveAt(predictCalls, i)
        /\ predictResponse' = Some(settled)
        /\ IF PredictError(settled) # Null
           THEN /\ error' = PredictError(settled)
                /\ result' = result
                /\ loading' = loading
           ELSE /\ result' = Some(settled.value)
                /\ error' = error
                /\ loading' = FALSE
        /\ UNCHANGED <<selectedImage, imageSource, unsplashAttribution, cameraActive, stream>>
        /\ UNCHANGED <<fileReaders, randomCalls, cameraRequests, liveStreams>>
        /\ UNCHANGED <<apiConfigured, unsplashConfigured>>

\* handlePredict from the moment predictFromBase64 settles
PredictSettles(i) ==
    LET settled == B64Settle(B64AfterFetch(Val(predictCalls[i].response)))
    IN  /\ mounted
        /\ UNCHANGED mounted
        /\ predictCalls[i].pc = "toClient"
        /\ predictCalls' = RemoveAt(predictCalls, i)
        /\ predictResponse' = Some(settled)
        /\ IF PredictError(settled) # Null
           THEN /\ error' = PredictError(settled)
                /\ result' = result
           ELSE /\ result' = Some(settled.value)
                /\ error' = error
        /\ loading' = FALSE
        /\ UNCHANGED <<selectedImage, imageSource, unsplashAttribution, cameraActive, stream>>
        /\ UNCHANGED <<fileReaders, randomCalls, cameraRequests, liveStreams>>
        /\ UNCHANGED <<apiConfigured, unsplashConfigured>>

\* what the page's user and the services it talks to may supply
PageFiles == [type : {"image/png", "text/plain"}, size : {maxSize, maxSize + 1}]
PageOutcomes ==
    {NetworkFailure}
        \cup [status : {200, 429, 500},
              body : {NotJson, Json(JsonNull), Json([error |-> "boom"]),
                      Json([predictions |-> <<[label |-> "golden-retriever",
                                               confidence |-> 95]>>]),
                      Json([error |-> "boom",
                            predictions |-> <<[label |-> "golden-retriever",
                                               confidence |-> 95]>>])}]

\* the answers GET /api/random-dog can give with and without its credential
RandomDogResponsesWith(configured) ==
    {RandomDogGET(configured, lookup, download) :
        lookup \in LookupOutcomes, download \in DownloadOutcomes}
ConfiguredResponses == RandomDogResponsesWith(TRUE)
UnconfiguredResponses == RandomDogResponsesWith(FALSE)

\* the answers GET /api/random-dog can give in this deployment
RandomDogResponses ==
    IF unsplashConfigured THEN ConfiguredResponses ELSE UnconfiguredResponses

PagePlatformOutcomes == {NetworkFailure, [status |-> 413, body |-> NotJson]}

Init == PageInit /\ NetInit /\ PawInit /\ B64Init /\ RelayInit /\ UrlInit

Next ==
    \/ \E file \in PageFiles : HandleFileUpload(file) /\ UNCHANGED <<pawVars, netVars, b64Vars, relayVars, urlVars>>
    \/ \E i \in DOMAIN fileReaders, ok \in BOOLEAN :
          FileReaderLoadEnd(i, ok) /\ UNCHANGED <<pawVars, netVars, b64Vars, relayVars, urlVars>>
    \/ HandleUnsplashImage /\ UNCHANGED <<pawVars, netVars, b64Vars, relayVars, urlVars>>
    \/ \E response \in RandomDogResponses :
          RandomDogSettles(response) /\ UNCHANGED <<pawVars, netVars, b64Vars, relayVars, urlVars>>
    \/ RandomDogSettles(NetworkFailure) /\ UNCHANGED <<pawVars, netVars, b64Vars, relayVars, urlVars>>
    \/ StartCamera /\ UNCHANGED <<pawVars, netVars, b64Vars, relayVars, urlVars>>
    \/ \E granted \in BOOLEAN :
          GetUserMediaSettles(granted) /\ UNCHANGED <<pawVars, netVars, b64Vars, relayVars, urlVars>>
    \/ StopCamera /\ UNCHANGED <<pawVars, netVars, b64Vars, relayVars, urlVars>>
    \/ \E hasContext \in BOOLEAN, frame \in CameraFrames :
          CapturePhoto(hasContext, frame) /\ UNCHANGED <<pawVars, netVars, b64Vars, relayVars, urlVars>>
    \/ ResetState /\ UNCHANGED <<pawVars, netVars, b64Vars, relayVars, urlVars>>
    \/ Unmount /\ UNCHANGED <<pawVars, netVars, b64Vars, relayVars, urlVars>>
    \/ HandlePredict /\ UNCHANGED <<pawVars, b64Vars, relayVars, urlVars>>
    \/ \E i \in DOMAIN predictCalls, outcome \in PagePlatformOutcomes :
          PlatformAnswers(i, outcome) /\ UNCHANGED <<pawVars, b64Vars, relayVars, pageVars, urlVars>>
    \/ \E i \in DOMAIN predictCalls :
          RelayReceives(i) /\ UNCHANGED <<pawVars, b64Vars, relayVars, pageVars, urlVars>>
    \/ \E i \in DOMAIN predictCalls, outcome \in PageOutcomes :
          ServiceAnswers(i, outcome) /\ UNCHANGED <<pawVars, b64Vars, relayVars, pageVars, urlVars>>
    \/ \E i \in DOMAIN predictCalls : PredictSettles(i) /\ UNCHANGED <<pawVars, b64Vars, relayVars, urlVars>>

vars == <<pageVars, netVars, pawVars, b64Vars, relayVars, urlVars>>

Spec == Init /\ [][Next]_vars

ApiInit == Init

\* one call of one entry point of the client in a behaviour
ApiIdle ==
    /\ pawPc = "idle"
    /\ b64Pc = "idle"
    /\ urlPc = "idle"
    /\ fileReaders = <<>>
    /\ error = Null
    /\ imageSource = Null

ApiNext ==
    \/ \E file \in Files : ApiIdle /\ PredictPaw(file)
    \/ \E ok \in BOOLEAN : PawFileRead(ok)
    \/ \E outcome \in FetchOutcomes : PawFetchSettles(outcome)
    \/ \E image \in Images : ApiIdle /\ PredictFromBase64(image)
    \/ \E i \in DOMAIN predictCalls, outcome \in FetchOutcomes :
          PlatformAnswers(i, outcome) /\ UNCHANGED <<pawVars, b64Vars, relayVars, pageVars, urlVars>>
    \/ \E i \in DOMAIN predictCalls :
          RelayReceives(i) /\ UNCHANGED <<pawVars, b64Vars, relayVars, pageVars, urlVars>>
    \/ \E i \in DOMAIN predictCalls, outcome \in FetchOutcomes :
          ServiceAnswers(i, outcome) /\ UNCHANGED <<pawVars, b64Vars, relayVars, pageVars, urlVars>>
    \/ B64FetchSettles
    \/ ApiIdle /\ UrlToBase64
    \/ \E outcome \in UrlOutcomes : UrlFetchSettles(outcome)
    \/ \E ok \in BOOLEAN : UrlReaderSettles(ok)
    \/ \E file \in Files :
          ApiIdle /\ HandleFileUpload(file) /\ UNCHANGED <<pawVars, netVars, b64Vars, relayVars, urlVars>>
    \/ \E i \in DOMAIN fileReaders, ok \in BOOLEAN :
          FileReaderLoadEnd(i, ok) /\ UNCHANGED <<pawVars, netVars, b64Vars, relayVars, urlVars>>

SpecApi == ApiInit /\ [][ApiNext]_vars

RelayNext ==
    \/ \E requestBody \in RequestBodies : RelayPOST(requestBody)
    \/ \E outcome \in FetchOutcomes : RelayFetchSettles(outcome)
    \/ RandomGET
    \/ \E lookup \in LookupOutcomes : RandomLookupSettles(lookup)
    \/ \E download \in DownloadOutcomes : RandomDownloadSettles(download)

SpecRelay == Init /\ [][RelayNext]_vars

(***************************************************************************)
(* Properties of the prediction client, checked under SpecApi.             *)
(***************************************************************************)
\* a result that reports a failure: { error: <message> } and nothing else
IsErrorResult(v) == v # JsonNull /\ DOMAIN v = {"error"} /\ v.error # ""

\* the fetch settled with a response (not with a network failure)
Answered(slot) == slot # Null /\ Val(slot) # NetworkFailure

\* a failure of the I/O under a client function
FetchFailed(slot) ==
    /\ slot # Null
    /\ \/ Val(slot) = NetworkFailure
       \/ ~Ok(Val(slot).status)
       \/ ~Val(slot).body.parses
PawIOFailed == (pawPc = "settled" /\ fileReads = 1 /\ pawImage = Null) \/ FetchFailed(pawResponse)

\* C1: predictPaw and predictFromBase64 never reject; whatever the file read
\* and the fetch do, the promise is fulfilled, and after a failed read, a
\* network failure, a non-2xx status or an unparseable body it is fulfilled
\* with { error: <message> }.
C1_NeverRejects ==
    /\ pawSettled # Null => Val(pawSettled).state = "fulfilled"
    /\ b64Settled # Null => Val(b64Settled).state = "fulfilled"
    /\ (pawPc = "settled" /\ PawIOFailed) =>
           /\ Val(pawSettled).state = "fulfilled"
           /\ IsErrorResult(Val(pawSettled).value)
    /\ (b64Pc = "settled" /\ FetchFailed(b64Response)) =>
           /\ Val(b64Settled).state = "fulfilled"
           /\ IsErrorResult(Val(b64Settled).value)

\* the file could not be read and predictPaw reported it as an error value
C1_Witness ==
    /\ pawPc = "settled"
    /\ fileReads = 1
    /\ pawImage = Null
    /\ pawSettled = Some(Fulfilled([error |-> MsgUnexpected]))

\* C2: on any submission, direct or relayed, an answer 429 of the inference
\* service gives exactly { error: "Too many requests. Please try again
\* later." }, whatever the body.
C2_RateLimitAnySubmission ==
    /\ (pawPc = "settled" /\ Answered(pawResponse) /\ Val(pawResponse).status = 429) =>
           pawSettled = Some(Fulfilled([error |-> MsgRateLimit]))
    /\ (b64Pc = "settled" /\ Answered(b64Outcome) /\ Val(b64Outcome).status = 429) =>
           b64Settled = Some(Fulfilled([error |-> MsgRateLimit]))

\* C3: in direct mode a 401 or 403 gives the fixed authentication message and
\* a 429 the fixed rate-limit message, whatever the body; the body's error
\* field is not used for these statuses.
C3_DirectStatusPolicy ==
    (pawPc = "settled" /\ Answered(pawResponse)) =>
        /\ Val(pawResponse).status = 429 =>
               pawSettled = Some(Fulfilled([error |-> MsgRateLimit]))
        /\ Val(pawResponse).status \in {401, 403} =>
               pawSettled = Some(Fulfilled([error |-> MsgAuth]))

\* a 403 whose body carries its own error text
C3_Witness ==
    /\ pawPc = "settled"
    /\ Answered(pawResponse)
    /\ Val(pawResponse).status = 403
    /\ Val(pawResponse).body = Json([error |-> "boom"])
    /\ pawSettled = Some(Fulfilled([error |-> MsgAuth]))

\* the body is JSON with a non-empty error field
BodyHasError(body) == body.parses /\ Truthy(body.value, "error")

\* the statuses the generic branch of the client function sees
GenericStatus(status) == ~Ok(status) /\ status \notin {429, 401, 403}

\* C4 as stated: for a non-2xx status other than 429/401/403 the message is
\* the body's error field when it has one, and otherwise (absent, empty, or
\* body not JSON) the generic message with the status code.
C4_BodyErrorElseHttpStatus ==
    /\ (pawPc = "settled" /\ Answered(pawResponse)
          /\ GenericStatus(Val(pawResponse).status)) =>
           pawSettled = Some(Fulfilled(
               [error |-> IF BodyHasError(Val(pawResponse).body)
                          THEN Val(pawResponse).body.value.error
                          ELSE MsgHttp(Val(pawResponse).status)]))
    /\ (b64Pc = "settled" /\ Answered(b64Response)
          /\ GenericStatus(Val(b64Response).status)) =>
           b64Settled = Some(Fulfilled(
               [error |-> IF BodyHasError(Val(b64Response).body)
                          THEN Val(b64Response).body.value.error
                          ELSE MsgHttp(Val(b64Response).status)]))

\* the message the generic branch gives for a status and a body
GenericMessage(status, body) ==
    IF ~body.parses THEN MsgUnknown
    ELSE IF body.value = JsonNull THEN MsgNullProperty
    ELSE IF Truthy(body.value, "error") THEN body.value.error
    ELSE MsgHttp(status)

\* C4 as amended: for a non-2xx status other than 429/401/403 the message is
\* the body's error field when the body is JSON with a non-empty error field,
\* the generic message with the status code when the body is a JSON object
\* whose error field is absent or empty, "Unknown error" when the body is not
\* JSON, and the runtime's TypeError message when the body is JSON null.
C4_GenericErrorMessage ==
    /\ (pawPc = "settled" /\ Answered(pawResponse)
          /\ GenericStatus(Val(pawResponse).status)) =>
           pawSettled = Some(Fulfilled(
               [error |-> GenericMessage(Val(pawResponse).status,
                                         Val(pawResponse).body)]))
    /\ (b64Pc = "settled" /\ Answered(b64Response)
          /\ GenericStatus(Val(b64Response).status)) =>
           b64Settled = Some(Fulfilled(
               [error |-> GenericMessage(Val(b64Response).status,
                                         Val(b64Response).body)]))

\* a 500 whose body is not JSON was reported as "Unknown error"
C4_Witness ==
    /\ pawPc = "settled"
    /\ Answered(pawResponse)
    /\ Val(pawResponse).status = 500
    /\ Val(pawResponse).body = NotJson
    /\ pawSettled = Some(Fulfilled([error |-> MsgUnknown]))

\* a result with exactly one of: non-empty predictions, an error message
HasPredictions(v) == HasField(v, "predictions") /\ Len(v.predictions) > 0
ExactlyOneOf(v) ==
    /\ v # JsonNull
    /\ HasPredictions(v) # Truthy(v, "error")
    /\ HasField(v, "predictions") => Len(v.predictions) > 0

\* C6: every value predictPaw or predictFromBase64 returns is either a
\* non-empty list of predictions without an error, or an error message
\* without predictions, for any 2xx body of the service.
C6_ExactlyOneOf ==
    /\ (pawSettled # Null /\ Val(pawSettled).state = "fulfilled") =>
           ExactlyOneOf(Val(pawSettled).value)
    /\ (b64Settled # Null /\ Val(b64Settled).state = "fulfilled") =>
           ExactlyOneOf(Val(b64Settled).value)

\* a step of handleFileUpload for the file
UploadStep(file) == HandleFileUpload(file) /\ UNCHANGED <<pawVars, netVars, b64Vars, relayVars, urlVars>>

\* C8: a file whose media type does not start with "image/" is rejected by
\* predictPaw and by the upload handler: an error message is produced, the
\* file is not read, no image is selected from it, no request is made.
C8_NonImageRejected ==
    /\ [](pawFile # Null /\ ~StartsWith(Val(pawFile).type, "image/") =>
            /\ pawSettled = Some(Fulfilled([error |-> MsgNotImage]))
            /\ pawImage = Null
            /\ fileReads = 0
            /\ directPosts = 0)
    /\ [](\A i \in DOMAIN fileReaders : StartsWith(fileReaders[i].type, "image/"))
    /\ [][\A file \in Files :
            (~StartsWith(file.type, "image/") /\ UploadStep(file)) =>
                /\ error' = Some(MsgSelectImage)
                /\ fileReaders' = fileReaders
                /\ selectedImage' = selectedImage
                /\ predictCalls' = predictCalls]_vars

\* the upload handler has refused a file for its media type
C8_Witness ==
    /\ error = Some(MsgSelectImage)
    /\ fileReaders = <<>>
    /\ selectedImage = Null
    /\ predictCalls = <<>>

\* C9: an image file is accepted if and only if its size is at most
\* 5*1024*1024 bytes; a file that is too large is refused before it is read
\* and before any request.
C9_SizeLimit ==
    /\ [](pawFile # Null /\ StartsWith(Val(pawFile).type, "image/") =>
            /\ Val(pawFile).size <= 5242880 <=> fileReads = 1
            /\ Val(pawFile).size > 5242880 =>
                  /\ pawSettled = Some(Fulfilled([error |-> MsgTooLarge]))
                  /\ pawImage = Null
                  /\ fileReads = 0
                  /\ directPosts = 0)
    /\ [][\A file \in Files :
            (StartsWith(file.type, "image/") /\ UploadStep(file)) =>
                /\ file.size <= 5242880 <=> fileReaders' = Append(fileReaders, file)
                /\ file.size > 5242880 =>
                      /\ error' = Some(MsgTooLarge)
                      /\ fileReaders' = fileReaders
                      /\ selectedImage' = selectedImage
                      /\ predictCalls' = predictCalls]_vars

\* a file of exactly 5 MiB is being read by the upload handler
C9_Witness ==
    /\ fileReaders # <<>>
    /\ fileReaders[1].size = 5242880
    /\ error = Null

(***************************************************************************)
(* Properties of the page and the predict relay, checked under Spec.       *)
(***************************************************************************)
\* handlePredict received a value that carries an error and predictions
BothFields(slot) ==
    /\ slot # Null
    /\ Val(slot).state = "fulfilled"
    /\ Truthy(Val(slot).value, "error")
    /\ HasField(Val(slot).value, "predictions")

\* C5: when the 2xx body of a prediction carries an error field and a
\* predictions field, handlePredict sets the error message and leaves the
\* result unset.
C5_ErrorTakesPrecedence ==
    [][(Len(predictCalls') < Len(predictCalls) /\ BothFields(predictResponse')) =>
          /\ error' = Some(Val(predictResponse').value.error)
          /\ result' = Null]_vars

\* the service answered 200 with both fields and the page shows the error
C5_Witness ==
    /\ BothFields(predictResponse)
    /\ HasPredictions(Val(predictResponse).value)
    /\ error = Some("boom")
    /\ result = Null
    /\ ~loading

\* the two checks of the upload path, on an encoded image
ImageValidated(image) == StartsWith(image.mime, "image/") /\ image.bytes <= 5242880

\* C7: every image POSTed to the inference service's /predict endpoint,
\* whatever path produced it, has passed the media-type check and the
\* size <= 5 MiB check.
C7_PostedImagesValidated ==
    \A i \in DOMAIN predictCalls :
        predictCalls[i].pc = "atService" => ImageValidated(predictCalls[i].image)

\* a step of handlePredict up to its await: the one place that POSTs
HandlePredictStep == HandlePredict /\ UNCHANGED <<pawVars, b64Vars, relayVars, urlVars>>

\* C10: no request is retried: a POST to /api/predict is only made by an
\* invocation of handlePredict, one per invocation; the relay POSTs to the
\* inference service at most once for a request; and when an answer or a
\* failure has come back nothing is sent again without a new invocation.
C10_NoRetry ==
    /\ [](\A i \in DOMAIN predictCalls : predictCalls[i].servicePosts <= 1)
    /\ [][Len(predictCalls') > Len(predictCalls) =>
            /\ HandlePredictStep
            /\ Len(predictCalls') = Len(predictCalls) + 1]_vars
    /\ [][\A i \in DOMAIN predictCalls :
            predictCalls[i].pc = "toClient" =>
                \/ predictCalls' = predictCalls
                \/ predictCalls' = RemoveAt(predictCalls, i)
                \/ HandlePredictStep]_vars

\* a prediction failed at the service, the failure came back to the page and
\* nothing is in flight
C10_Witness ==
    /\ predictCalls = <<>>
    /\ predictResponse = Some(Fulfilled([error |-> "boom"]))
    /\ error = Some("boom")
    /\ result = Null
    /\ ~loading

(***************************************************************************)
(* Properties of the camera flow and the relays.                           *)
(***************************************************************************)
\* the camera flow is left: the camera view closes, resetState runs, or the
\* component is torn down while the camera view is open
CameraFlowExits ==
    \/ cameraActive /\ ~cameraActive'
    \/ cameraActive /\ mounted /\ ~mounted'

\* C11: on every exit of the camera flow (a capture, Cancel, resetState, the
\* teardown of the component) every track of every acquired stream has been
\* stopped: no stream is live when the flow has been left.
C11_CameraReleasedOnExit ==
    [][CameraFlowExits => liveStreams' = {}]_vars

(***************************************************************************)
(* Properties of the two route handlers, checked under SpecRelay.          *)
(***************************************************************************)
\* the request body is a JSON object without an image: the field is absent
\* or is empty
ObjectWithoutImage(body) ==
    /\ body.parses
    /\ body.value # JsonNull
    /\ ~HasField(body.value, "image") \/ body.value.image = EmptyImage

\* C12 as stated: whenever the request body has no image field (absent or
\* empty) the predict relay answers 400 with an error body and makes no
\* request to the inference service.
C12_NoImageAnswers400 ==
    (postPc # "idle" /\ ObjectWithoutImage(Val(postBody))) =>
        /\ postPc = "done"
        /\ Val(postResponse).status = 400
        /\ Truthy(Val(postResponse).body.value, "error")
        /\ postFetches = 0

\* C12 as amended: when the relay is configured and the request body is a
\* JSON object whose image field is absent or empty, the relay answers 400
\* with the error body "No image provided" and makes no request to the
\* inference service.
C12_ConfiguredNoImageAnswers400 ==
    (postPc # "idle" /\ apiConfigured /\ ObjectWithoutImage(Val(postBody))) =>
        /\ postPc = "done"
        /\ postResponse = Some(JsonResponse(400, [error |-> RelayMsgNoImage]))
        /\ postFetches = 0
        /\ postOutcome = Null

\* a configured relay refused a body whose image is the empty string
C12_Witness ==
    /\ apiConfigured
    /\ postPc = "done"
    /\ postBody = Some(Json([image |-> EmptyImage]))
    /\ postResponse = Some(JsonResponse(400, [error |-> RelayMsgNoImage]))
    /\ postFetches = 0

\* C13: a relay whose configuration is missing answers 500 with the
\* configuration-error body to every request, whatever the request body is
\* (an image, no image, JSON null, not JSON), makes no upstream request and
\* always ends with a response.
C13_MissingConfigAnswers500 ==
    /\ (postPc # "idle" /\ ~apiConfigured) =>
           /\ postPc = "done"
           /\ postResponse = Some(JsonResponse(500, [error |-> RelayMsgConfig]))
           /\ postFetches = 0
    /\ (getPc # "idle" /\ ~unsplashConfigured) =>
           /\ getPc = "done"
           /\ getResponse = Some(JsonResponse(500, [error |-> RelayMsgConfig]))
           /\ getFetches = 0

\* both relays lack their configuration; the predict relay was sent a body
\* that is not JSON
C13_Witness ==
    /\ ~apiConfigured
    /\ ~unsplashConfigured
    /\ postBody = Some(NotJson)
    /\ postResponse = Some(JsonResponse(500, [error |-> RelayMsgConfig]))
    /\ getResponse = Some(JsonResponse(500, [error |-> RelayMsgConfig]))
    /\ postFetches = 0
    /\ getFetches = 0

\* the inference service answered the relay's fetch
ServiceAnswered == postPc = "done" /\ Answered(postOutcome)

\* C14 as stated: when the inference service answers non-2xx, the relay's
\* response has the same status code and the same body as the service's
\* response; when it answers 2xx with a JSON body, the relay returns that body
\* unchanged.
C14_PassThroughVerbatim ==
    ServiceAnswered =>
        IF ~Ok(Val(postOutcome).status)
        THEN /\ Val(postResponse).status = Val(postOutcome).status
             /\ Val(postResponse).body = Val(postOutcome).body
        ELSE Val(postOutcome).body.parses =>
                 Val(postResponse).body = Val(postOutcome).body

\* the body the relay gives for a non-2xx answer of the service
RelayedErrorBody(status, body) ==
    IF ~body.parses THEN Json([error |-> MsgUnknown])
    ELSE IF Truthy(body.value, "error") THEN Json([error |-> body.value.error])
    ELSE Json([error |-> RelayMsgApi(status)])

\* C14 as amended: when the inference service answers with an error status,
\* the relay's response has the same status code and the body { error: E },
\* where E is the error field of the service's body when that body is JSON
\* with a non-empty error field, "Unknown error" when the body is not JSON and
\* "API error: <status>" otherwise; only a body that is the JSON value null
\* gives 500 "Internal server error" instead.  When the service answers 2xx
\* with a JSON body, the relay returns that body unchanged, with status 200.
C14_StatusAndErrorPassThrough ==
    ServiceAnswered =>
        IF ~Ok(Val(postOutcome).status)
        THEN IF Val(postOutcome).body = Json(JsonNull)
             THEN postResponse = Some(JsonResponse(500, [error |-> RelayMsgInternal]))
             ELSE /\ Val(postResponse).status = Val(postOutcome).status
                  /\ Val(postResponse).body =
                         RelayedErrorBody(Val(postOutcome).status, Val(postOutcome).body)
        ELSE Val(postOutcome).body.parses =>
                 /\ Val(postResponse).status = 200
                 /\ Val(postResponse).body = Val(postOutcome).body

\* the service answered 400 with an error and more; the relay kept the status
\* and the error text
C14_Witness ==
    /\ ServiceAnswered
    /\ Val(postOutcome).status = 400
    /\ Val(postOutcome).body = Json([error |-> "boom", predictions |-> <<>>])
    /\ postResponse = Some(JsonResponse(400, [error |-> "boom"]))

\* the provider lookup failed: a network failure or a non-2xx answer
LookupFailed ==
    /\ getLookup # Null
    /\ Val(getLookup) = NetworkFailure \/ ~Ok(Val(getLookup).status)

\* the provider answered 2xx without a usable image URL
NoUsableUrl ==
    /\ getLookup # Null
    /\ Val(getLookup) # NetworkFailure
    /\ Ok(Val(getLookup).status)
    /\ \/ ~Val(getLookup).body.parses
       \/ Val(getLookup).body.value = JsonNull
       \/ ImageUrl(Val(getLookup).body.value) = Null

\* the image download failed: a network failure, a non-2xx answer, or a body
\* that broke off
DownloadFailed ==
    /\ getDownload # Null
    /\ \/ Val(getDownload) = NetworkFailure
       \/ ~Ok(Val(getDownload).status)
       \/ ~Val(getDownload).complete

\* C15: the random-image relay answers 502 whenever the provider lookup
\* fails, the provider's answer has no usable image URL or the image download
\* fails, a network-level failure of the fetch included; it answers 500 only
\* when its provider credential is missing.
C15_UpstreamFailureAnswers502 ==
    getPc = "done" =>
        /\ (LookupFailed \/ NoUsableUrl \/ DownloadFailed) =>
               Val(getResponse).status = 502
        /\ Val(getResponse).status = 500 => ~unsplashConfigured

\* a 200 response that carries the whole downloaded image and no error
CompleteImageResponse(r) ==
    /\ r.status = 200
    /\ HasField(r.body.value, "image")
    /\ ~HasField(r.body.value, "error")
    /\ getDownload # Null
    /\ Val(getDownload) # NetworkFailure
    /\ Val(getDownload).complete
    /\ r.body.value.image.bytes = Val(getDownload).bytes

\* a non-2xx response that carries an error message and no image
ErrorOnlyResponse(r) ==
    /\ ~Ok(r.status)
    /\ Truthy(r.body.value, "error")
    /\ ~HasField(r.body.value, "image")

\* C16: every response of the random-image relay is either a 200 response
\* with the complete image data URI and no error field, or a non-2xx response
\* with an error field and no image field; and after a failed provider lookup
\* the error message is one of the relay's fixed texts, whatever the body of
\* the provider's answer.
C16_ImageXorError ==
    getPc = "done" =>
        /\ CompleteImageResponse(Val(getResponse)) \/ ErrorOnlyResponse(Val(getResponse))
        /\ LookupFailed =>
               /\ ErrorOnlyResponse(Val(getResponse))
               /\ Val(getResponse).body.value.error \in {RandomMsgLookup, RelayMsgInternal}

\* the provider refused the lookup with a body of its own and the relay
\* answered with its fixed text
C16_Witness ==
    /\ getPc = "done"
    /\ getLookup = Some([status |-> 403, body |-> Json(PhotoFull)])
    /\ getResponse = Some(JsonResponse(502, [error |-> RandomMsgLookup]))
    /\ getFetches = 1

(***************************************************************************)
(* Properties of the page's acquisition paths, checked under Spec.         *)
(***************************************************************************)
\* C17: in every state of the page, unsplashAttribution is non-null only if
\* the selected image came from the random-image path (imageSource is
\* 'unsplash'); it is absent when the image came from upload or camera.
C17_AttributionOnlyForRandom ==
    unsplashAttribution # Null => imageSource = Some("unsplash")

\* an acquisition path comes to its end in this step: a file reader has
\* fired onloadend, the random-image call has settled, or getUserMedia has
\* been refused
AcquisitionEnds ==
    \/ Len(fileReaders') < Len(fileReaders)
    \/ randomCalls' < randomCalls
    \/ cameraRequests' < cameraRequests /\ liveStreams' = liveStreams

\* C18: every acquisition path ends with a valid encoded image or a
\* descriptive error message: when the path's last callback has run,
\* selectedImage is a data URI or error is non-null, also when the file read
\* fails, the camera is refused or the relay fails.
C18_ImageOrErrorAfterAcquisition ==
    [][AcquisitionEnds => (selectedImage' # Null \/ error' # Null)]_vars

\* the kinds of flow the page is waiting for
FlowsInFlight ==
    {kind \in {"random", "predict", "camera", "file"} :
        \/ kind = "random" /\ randomCalls > 0
        \/ kind = "predict" /\ predictCalls # <<>>
        \/ kind = "camera" /\ cameraRequests > 0
        \/ kind = "file" /\ fileReaders # <<>>}

\* C19: at most one prediction or image-acquisition flow is in flight at any
\* time: no state has two of random-image fetch, prediction request, camera
\* start and file read pending together.
C19_OneFlowInFlight == Cardinality(FlowsInFlight) <= 1

\* a step of resetState
ResetStep == ResetState /\ UNCHANGED <<pawVars, netVars, b64Vars, relayVars, urlVars>>

\* C20: immediately after resetState, selectedImage, result, error,
\* imageSource and unsplashAttribution are all null, cameraActive is false
\* and no camera track is live.
C20_ResetDiscardsEverything ==
    [][ResetStep =>
          /\ selectedImage' = Null
          /\ result' = Null
          /\ error' = Null
          /\ imageSource' = Null
          /\ unsplashAttribution' = Null
          /\ ~cameraActive'
          /\ liveStreams' = {}]_vars

(***************************************************************************)
(* Properties of urlToBase64, checked under SpecApi.                       *)
(***************************************************************************)
\* the GET of urlToBase64 did not succeed
UrlGetFailed ==
    /\ urlResponse # Null
    /\ Val(urlResponse) = NetworkFailure \/ ~Ok(Val(urlResponse).status)

\* C21: urlToBase64 fails whenever its GET does not succeed: after a non-2xx
\* response as after a network failure its promise is rejected and no
\* encoded image is produced; the body of an error response is never encoded.
C21_UrlFailsWhenGetFails ==
    (urlPc = "settled" /\ UrlGetFailed) => Val(urlSettled).state = "rejected"

(***************************************************************************)
(* Properties of the page's state, checked under Spec.                     *)
(***************************************************************************)
\* the upload handler refuses the file: wrong media type, or too large
UploadRefused(file) ==
    ~StartsWith(file.type, "image/") \/ file.size > 5242880

\* C22: a rejected upload changes only the error message: selectedImage,
\* imageSource, result, unsplashAttribution, loading and the camera state
\* are as they were before the file was chosen.
C22_RejectedUploadFrame ==
    [][\A file \in PageFiles :
          (UploadRefused(file) /\ UploadStep(file)) =>
              /\ error' = Some(IF ~StartsWith(file.type, "image/")
                               THEN MsgSelectImage ELSE MsgTooLarge)
              /\ selectedImage' = selectedImage
              /\ imageSource' = imageSource
              /\ result' = result
              /\ unsplashAttribution' = unsplashAttribution
              /\ loading' = loading
              /\ cameraActive' = cameraActive
              /\ stream' = stream
              /\ liveStreams' = liveStreams]_vars

\* a file that is too large was refused while the result of an earlier
\* prediction and the source of its image were on the page
C22_Witness ==
    /\ error = Some(MsgTooLarge)
    /\ result # Null
    /\ imageSource # Null
    /\ selectedImage = Null
    /\ fileReaders = <<>>

\* the request i comes back in this step and its value becomes the result
ResultSetFrom(i) ==
    /\ predictCalls[i].pc = "toClient"
    /\ predictCalls' = RemoveAt(predictCalls, i)
    /\ result' # Null
    /\ result' # result

\* C23: a displayed result belongs to the selected image: whenever result is
\* non-null, selectedImage is non-null and is the image whose prediction
\* request produced the result, also when the user resets or selects another
\* image while the request is in flight.
C23_ResultBelongsToImage ==
    /\ [](result # Null => selectedImage # Null)
    /\ [][\A i \in DOMAIN predictCalls :
            ResultSetFrom(i) => selectedImage' = Some(predictCalls[i].image)]_vars
    /\ [][(result # Null /\ result' = result) => selectedImage' = selectedImage]_vars

\* C24: the camera view and a selected image are never active together: no
\* state has cameraActive true and selectedImage non-null, also when a
\* random-image response arrives after the camera has been started.
C24_CameraAndImageExclusive == ~(cameraActive /\ selectedImage # Null)

\* C25: while the page is up, every capture stream that was obtained and not
\* yet stopped is the one held in the stream state: no stream is live
\* without a reference that stopCamera can stop, also after a second
\* startCamera issued before the first getUserMedia call has resolved.
C25_NoStreamLeak ==
    mounted => \A id \in liveStreams : stream = Some(id)

\* a remote call of the page is pending
RandomFetchPending == randomCalls > 0
PredictionPending == predictCalls # <<>>

\* C26: while the page is up, loading is true exactly when a random-image
\* fetch or a prediction request is pending, and the two are never pending
\* together.
C26_LoadingIffPending ==
    mounted =>
        /\ loading <=> (RandomFetchPending \/ PredictionPending)
        /\ ~(RandomFetchPending /\ PredictionPending)

\* a prediction request is still pending after the image was removed, and
\* loading is still true
C26_Witness ==
    /\ mounted
    /\ loading
    /\ PredictionPending
    /\ ~RandomFetchPending
    /\ selectedImage = Null

\* the remote call of a pending flow goes on: the request moves through the
\* relay and the service, the promise settles and the continuation of the
\* handler runs
RemoteCallCompletes ==
    \/ \E response \in RandomDogResponses \cup {NetworkFailure} :
          RandomDogSettles(response) /\ UNCHANGED <<pawVars, netVars, b64Vars, relayVars, urlVars>>
    \/ \E i \in DOMAIN predictCalls, outcome \in PagePlatformOutcomes :
          PlatformAnswers(i, outcome) /\ UNCHANGED <<pawVars, b64Vars, relayVars, pageVars, urlVars>>
    \/ \E i \in DOMAIN predictCalls :
          RelayReceives(i) /\ UNCHANGED <<pawVars, b64Vars, relayVars, pageVars, urlVars>>
    \/ \E i \in DOMAIN predictCalls, outcome \in PageOutcomes :
          ServiceAnswers(i, outcome) /\ UNCHANGED <<pawVars, b64Vars, relayVars, pageVars, urlVars>>
    \/ \E i \in DOMAIN predictCalls :
          PredictSettles(i) /\ UNCHANGED <<pawVars, b64Vars, relayVars, urlVars>>

\* the steps of the page with one use of the camera at a time: the camera
\* handlers leave loading and both remote calls alone
LiveNext ==
    /\ Next
    /\ cameraRequests' + Cardinality(liveStreams') <= 1

\* the page when every remote call it starts completes
SpecLive == Init /\ [][LiveNext]_vars /\ WF_vars(RemoteCallCompletes)

\* the step on which a displayed page leaves the loading state
LoadingEnds == loading /\ ~loading' /\ mounted'

\* C27: provided the remote call completes, every started random-image fetch
\* or prediction request leaves the loading state: loading becomes false,
\* and on that step the page holds an image, a result or an error message.
C27_LoadingEventuallyEnds ==
    /\ (mounted /\ loading) ~> ~loading
    /\ [][LoadingEnds => (selectedImage' # Null \/ result' # Null \/ error' # Null)]_vars

\* a prediction request has ended with an error message and loading is off
C27_Witness ==
    /\ mounted
    /\ ~loading
    /\ predictResponse # Null
    /\ error = Some(MsgPredictFailed)
    /\ result = Null

====
